---- MODULE Spec2Model ----
(***************************************************************************)
(* Model of the Stellar HTLC contract                                      *)
(* (contracts/stellar/stellar-htlc/contracts/htlc/src/lib.rs).             *)
(*                                                                         *)
(* One state of the model is the state of the ledger between two top-level *)
(* contract invocations: the contract's persistent storage, the native     *)
(* token's balances, the ledger timestamp and the published events.  A     *)
(* panic anywhere in an invocation aborts it and the host discards every   *)
(* write, transfer and event of that invocation.                           *)
(***************************************************************************)
EXTENDS Integers, Sequences, FiniteSets, TLC

(***************************************************************************)
(* Bounds of the model.                                                    *)
(***************************************************************************)
NumAddresses == 2
NumPreimages == 2
MaxTime == 3
\* The deadline the callers ask for.
Deadline == 2
MaxEscrows == 2
\* i128 is modelled with a narrow range so that amount + safety_deposit
\* can leave it.
I128Max == 7
I128Min == -I128Max - 1
\* The widths, in bytes, at which the id derivation packs an i128 and a u64
\* (narrowed like the integers themselves).
AmountBytes == 2
TimeBytes == 1
InitBalance == I128Max \div 2

Address == 1..NumAddresses
\* env.current_contract_address(): the engine's own custody account.
ContractAddress == 0
Account == Address \cup {ContractAddress}
Preimage == 1..NumPreimages
Time == 0..MaxTime

\* The arguments the callers try.
AmountInput == {-1, 0, 1, I128Max}
DepositInput == {-1, 0, 1}
TimelockInput == {Deadline}
\* The addresses that fund escrows.
SenderInput == {1}
\* The invocation carries the authorization of one address.
AuthInput == {{a} : a \in Address}

\* The panic messages of lib.rs, plus the host's own aborts.
OK == "ok"
ErrInvalidAmount == "Invalid amount"
ErrInvalidSafetyDeposit == "Invalid safety deposit"
ErrInvalidTimelock == "Invalid timelock"
ErrAlreadyExists == "Contract already exists"
ErrInsufficientBalance == "Insufficient balance"
ErrNotFound == "Contract not found"
ErrReentrancy == "Reentrancy detected"
ErrAlreadyWithdrawn == "Already withdrawn"
ErrAlreadyRefunded == "Already refunded"
ErrTimelockExpired == "Timelock expired"
ErrTimelockNotExpired == "Timelock not expired"
ErrInvalidPreimage == "Invalid preimage"
\* require_auth() failing, the token's transfer failing, i128 overflow trap
ErrUnauthorized == "Unauthorized"
ErrTransferFailed == "Transfer failed"
ErrOverflow == "attempt to add with overflow"

HTLCStatus == {"Active", "Withdrawn", "Refunded"}

VARIABLES
    storage,     \* env.storage().persistent(): contract_id -> HTLCData
    balance,     \* the native token's ledger: account -> i128
    timestamp,   \* env.ledger().timestamp()
    events,      \* env.events(): the events published so far
    last,        \* the last top-level invocation and its outcome
    movedIn,     \* per contract_id: value transferred into custody for it
    movedOut,    \* per contract_id: value transferred out of custody for it
    resolved     \* per contract_id: number of successful withdraw/refund calls

vars == <<storage, balance, timestamp, events, last, movedIn, movedOut, resolved>>

(***************************************************************************)
(* Hashing.  sha256 and keccak256 are collision resistant: they are        *)
(* modelled as injective maps that are not the identity.                   *)
(***************************************************************************)
sha256(preimage) == 100 + ((preimage * 3) % 7)

Hashlock == {sha256(p) : p \in Preimage}
\* The hashlocks the callers try: the digest of the first preimage.
HashlockInput == {sha256(1)}

address_to_bytes32(address) == 200 + ((address * 5) % 11)

\* A digest stands for the data it was computed from.
keccak256(data) == [keccak256 |-> data]

\* x.to_be_bytes(): the big-endian two's complement bytes of x, `width` of
\* them.
to_be_bytes(x, width) ==
    [i \in 1..width |-> ((x % (256 ^ width)) \div (256 ^ (width - i))) % 256]

\* A packing that leaves the creation time out.
generate_contract_id_no_timestamp(sender, receiver, amount, hashlock, timelock, ts) ==
    keccak256(<<address_to_bytes32(sender)>>
              \o <<address_to_bytes32(receiver)>>
              \o to_be_bytes(amount, AmountBytes)
              \o <<hashlock>>
              \o to_be_bytes(timelock, TimeBytes))

\* lib.rs 339-365: keccak256 over sender, receiver, amount, hashlock,
\* timelock and timestamp, each packed at a fixed width.
generate_contract_id(sender, receiver, amount, hashlock, timelock, ts) ==
    keccak256(<<address_to_bytes32(sender)>>
              \o <<address_to_bytes32(receiver)>>
              \o to_be_bytes(amount, AmountBytes)
              \o <<hashlock>>
              \o to_be_bytes(timelock, TimeBytes)
              \o to_be_bytes(ts, TimeBytes))

\* An id no create can derive (its amount field is 0).
UnknownId == generate_contract_id(1, 1, 0, sha256(1), 0, 0)

NativeTokenAddress == "CDLZFC3SYJYDZT7K67VZ75HPJVIEUVNIXF47ZG2FB2RMQQAHRBBI6ZFO"

(***************************************************************************)
(* i128 arithmetic.  `amount + safety_deposit` either traps (a build with  *)
(* overflow checks) or wraps around (a build without); both are outcomes   *)
(* the build can produce.                                                  *)
(***************************************************************************)
InI128(x) == I128Min <= x /\ x <= I128Max

\* A sum that wraps around to zero, as an unsigned one does.
wrap_i128_unsigned(x) == x % (I128Max + 1)

wrap_i128(x) == ((x - I128Min) % (2 * (I128Max + 1))) + I128Min

add_i128(a, b, overflow_checks) ==
    IF InI128(a + b) THEN [trap |-> FALSE, value |-> a + b]
    ELSE IF overflow_checks THEN [trap |-> TRUE, value |-> 0]
    ELSE [trap |-> FALSE, value |-> wrap_i128(a + b)]

(***************************************************************************)
(* The native token (TokenClient).  A transfer fails, aborting the caller, *)
(* when the amount is negative or the payer's balance is too small.        *)
(***************************************************************************)
token_transfer(bal, from, to, amount) ==
    IF amount < 0 \/ bal[from] < amount
    THEN [ok |-> FALSE, balance |-> bal]
    ELSE [ok |-> TRUE,
          balance |-> [bal EXCEPT ![from] = @ - amount, ![to] = @ + amount]]

\* A sequence of transfers, in order; the first failure aborts.
RECURSIVE token_transfers(_, _)
token_transfers(bal, xfers) ==
    IF xfers = <<>> THEN [ok |-> TRUE, balance |-> bal]
    ELSE LET t == token_transfer(bal, Head(xfers).from, Head(xfers).to,
                                 Head(xfers).amount)
         IN IF t.ok THEN token_transfers(t.balance, Tail(xfers)) ELSE t

get_native_balance(bal, address) == bal[address]

Xfer(from, to, amount) == [from |-> from, to |-> to, amount |-> amount]

(***************************************************************************)
(* Persistent storage.                                                     *)
(***************************************************************************)
storage_has(sto, contract_id) == contract_id \in DOMAIN sto

storage_set(sto, contract_id, htlc_data) ==
    [k \in DOMAIN sto \cup {contract_id} |->
        IF k = contract_id THEN htlc_data ELSE sto[k]]

(***************************************************************************)
(* The outcome of one invocation: its result and the ledger it leaves.     *)
(* A panic leaves the ledger as the invocation found it.                   *)
(***************************************************************************)
\* `inner` is the result of a call that re-entered the contract from inside
\* a transfer of this invocation, "refused" when the token turned a transfer
\* down, "none" otherwise.
Outcome(result, sto, bal, evs, xfers) ==
    [result |-> result, storage |-> sto, balance |-> bal, events |-> evs,
     xfers |-> xfers, inner |-> "none"]

\* The ledger an invocation works on.
Ledger(sto, bal, evs) == [storage |-> sto, balance |-> bal, events |-> evs]

PanicAt(ledger, msg) ==
    Outcome(msg, ledger.storage, ledger.balance, ledger.events, <<>>)

Panic(msg) == Outcome(msg, storage, balance, events, <<>>)

Event(topic, contract_id, data) ==
    [topic |-> topic, contract_id |-> contract_id, data |-> data]

\* A creation event with amount and safety deposit exchanged.
create_event_swapped(contract_id, htlc_data) ==
    Event("HTLCNew", contract_id,
          <<htlc_data.sender, htlc_data.receiver, htlc_data.safety_deposit,
            htlc_data.token_address, htlc_data.hashlock, htlc_data.timelock,
            htlc_data.amount>>)

\* The HTLCNew event, lib.rs 148-163: topics (HTLCNew, contract_id), data
\* (sender, receiver, amount, token_address, hashlock, timelock,
\* safety_deposit).
create_event(contract_id, htlc_data) ==
    Event("HTLCNew", contract_id,
          <<htlc_data.sender, htlc_data.receiver, htlc_data.amount,
            htlc_data.token_address, htlc_data.hashlock, htlc_data.timelock,
            htlc_data.safety_deposit>>)

\* A withdrawal event that carries the hash of the secret.
withdraw_event_hashed(contract_id, preimage) ==
    Event("HTLCWithdraw", contract_id, <<sha256(preimage)>>)

\* The HTLCWithdraw event, lib.rs 231-238: topics (HTLCWithdraw,
\* contract_id), data preimage.
withdraw_event(contract_id, preimage) ==
    Event("HTLCWithdraw", contract_id, <<preimage>>)

\* A refund event published under the withdrawal topic.
refund_event_withdraw_topic(contract_id) ==
    Event("HTLCWithdraw", contract_id, <<contract_id>>)

\* The HTLCRefund event, lib.rs 290-294: topics (HTLCRefund, contract_id),
\* data contract_id.
refund_event(contract_id) ==
    Event("HTLCRefund", contract_id, <<contract_id>>)

\* An authorization check that every invocation passes.
require_auth_any(auths, address) == TRUE

\* address.require_auth(): the invocation carries the authorization of
\* `address`; otherwise the host aborts it.
require_auth(auths, address) == address \in auths

(***************************************************************************)
(* create_htlc                                                             *)
(***************************************************************************)
\* A validation that lets a deadline equal to the current time through.
create_validate_late(amount, safety_deposit, timelock, current_timestamp) ==
    IF amount <= 0 THEN ErrInvalidAmount
    ELSE IF safety_deposit < 0 THEN ErrInvalidSafetyDeposit
    ELSE IF timelock < current_timestamp THEN ErrInvalidTimelock
    ELSE OK

\* A validation that lets an amount of zero through.
create_validate_zero_amount(amount, safety_deposit, timelock, current_timestamp) ==
    IF amount < 0 THEN ErrInvalidAmount
    ELSE IF safety_deposit < 0 THEN ErrInvalidSafetyDeposit
    ELSE IF timelock <= current_timestamp THEN ErrInvalidTimelock
    ELSE OK

\* Input validation, lib.rs 79-91.
create_validate(amount, safety_deposit, timelock, current_timestamp) ==
    IF amount <= 0 THEN ErrInvalidAmount
    ELSE IF safety_deposit < 0 THEN ErrInvalidSafetyDeposit
    ELSE IF timelock <= current_timestamp THEN ErrInvalidTimelock
    ELSE OK

\* A record with the two parties swapped.
new_htlc_data_swapped(contract_id, sender, receiver, amount, hashlock, timelock, current_timestamp, safety_deposit) ==
    [contract_id |-> contract_id, sender |-> receiver, receiver |-> sender,
     amount |-> amount, token_address |-> NativeTokenAddress,
     hashlock |-> hashlock, timelock |-> timelock,
     timestamp |-> current_timestamp, safety_deposit |-> safety_deposit,
     status |-> "Active", locked |-> FALSE]

\* The record persisted by create_htlc, lib.rs 128-141.
new_htlc_data(contract_id, sender, receiver, amount, hashlock, timelock, current_timestamp, safety_deposit) ==
    [contract_id |-> contract_id, sender |-> sender, receiver |-> receiver,
     amount |-> amount, token_address |-> NativeTokenAddress,
     hashlock |-> hashlock, timelock |-> timelock,
     timestamp |-> current_timestamp, safety_deposit |-> safety_deposit,
     status |-> "Active", locked |-> FALSE]

\* A create that does not look for an existing record.
create_collides_never(sto, contract_id) == FALSE

\* An existence check that lets a create replace a record that is still
\* Active.
create_collides_resolved_only(sto, contract_id) ==
    storage_has(sto, contract_id) /\ sto[contract_id].status # "Active"

\* The existence check of create_htlc, lib.rs 104-111.
create_collides(sto, contract_id) == storage_has(sto, contract_id)

\* The transfer into custody, lib.rs 122-126.
create_transfers(sender, total_amount) ==
    <<Xfer(sender, ContractAddress, total_amount)>>

\* A create that leaves the balance to the token.
insufficient_balance_unchecked(sender_balance, total_amount) == FALSE

\* The balance check of create_htlc, lib.rs 116-120.
insufficient_balance(sender_balance, total_amount) ==
    sender_balance < total_amount

create_htlc_run(auths, sender, receiver, amount, hashlock, timelock, safety_deposit, overflow_checks) ==
    IF ~require_auth(auths, sender) THEN Panic(ErrUnauthorized)
    ELSE LET current_timestamp == timestamp
             v == create_validate(amount, safety_deposit, timelock,
                                  current_timestamp)
         IN
    IF v # OK THEN Panic(v)
    ELSE LET contract_id == generate_contract_id(sender, receiver, amount,
                                hashlock, timelock, current_timestamp)
         IN
    IF create_collides(storage, contract_id) THEN Panic(ErrAlreadyExists)
    ELSE LET sum == add_i128(amount, safety_deposit, overflow_checks) IN
    IF sum.trap THEN Panic(ErrOverflow)
    ELSE LET total_amount == sum.value
             sender_balance == get_native_balance(balance, sender)
         IN
    IF insufficient_balance(sender_balance, total_amount)
    THEN Panic(ErrInsufficientBalance)
    ELSE LET xfers == create_transfers(sender, total_amount)
             t == token_transfers(balance, xfers)
         IN
    IF ~t.ok THEN Panic(ErrTransferFailed)
    ELSE LET htlc_data == new_htlc_data(contract_id, sender, receiver, amount,
                              hashlock, timelock, current_timestamp,
                              safety_deposit)
         IN Outcome(OK,
                    storage_set(storage, contract_id, htlc_data),
                    t.balance,
                    Append(events, create_event(contract_id, htlc_data)),
                    xfers)

(***************************************************************************)
(* withdraw and refund                                                     *)
(***************************************************************************)
\* A lookup that answers a missing id with an empty Active record.
get_htlc_data_default(sto, contract_id) ==
    IF storage_has(sto, contract_id)
    THEN [found |-> TRUE, data |-> sto[contract_id]]
    ELSE [found |-> TRUE,
          data |-> new_htlc_data(contract_id, 1, 1, 0, sha256(1), 0, 0, 0)]

\* get_htlc_data, lib.rs 317-322: the record, or the panic "Contract not
\* found".
get_htlc_data(sto, contract_id) ==
    IF storage_has(sto, contract_id)
    THEN [found |-> TRUE, data |-> sto[contract_id]]
    ELSE [found |-> FALSE, data |-> <<>>]

\* A status match that lets every status through.
status_check_none(status) == OK

\* A status match with the two terminal messages exchanged.
status_check_swapped(status) ==
    CASE status = "Active" -> OK
      [] status = "Withdrawn" -> ErrAlreadyRefunded
      [] status = "Refunded" -> ErrAlreadyWithdrawn

\* The status match of withdraw (180-185) and refund (253-258).
status_check(status) ==
    CASE status = "Active" -> OK
      [] status = "Withdrawn" -> ErrAlreadyWithdrawn
      [] status = "Refunded" -> ErrAlreadyRefunded

\* A timelock check that still admits a withdraw at the deadline itself.
withdraw_timelock_expired_strict(current_timestamp, timelock) ==
    current_timestamp > timelock

\* withdraw's timelock check, lib.rs 187-191.
withdraw_timelock_expired(current_timestamp, timelock) ==
    current_timestamp >= timelock

\* A timelock check that never lets a refund through.
refund_timelock_never(current_timestamp, timelock) == TRUE

\* refund's timelock check, lib.rs 260-264.
refund_timelock_not_expired(current_timestamp, timelock) ==
    current_timestamp < timelock

\* A preimage check that compares the secret itself with the hashlock.
preimage_invalid_unhashed(preimage, hashlock) == preimage # hashlock

\* withdraw's preimage check, lib.rs 193-199.
preimage_invalid(preimage, hashlock) == sha256(preimage) # hashlock

\* A withdraw that pays the safety deposit to the receiver as well.
withdraw_transfers_deposit_to_receiver(htlc_data) ==
    <<Xfer(ContractAddress, htlc_data.receiver, htlc_data.amount)>>
    \o (IF htlc_data.safety_deposit > 0
        THEN <<Xfer(ContractAddress, htlc_data.receiver,
                    htlc_data.safety_deposit)>>
        ELSE <<>>)

\* A withdraw that pays the receiver and leaves the safety deposit in custody.
withdraw_transfers_keeps_deposit(htlc_data) ==
    <<Xfer(ContractAddress, htlc_data.receiver, htlc_data.amount)>>

\* withdraw's transfers out of custody, lib.rs 207-222.
withdraw_transfers(htlc_data) ==
    <<Xfer(ContractAddress, htlc_data.receiver, htlc_data.amount)>>
    \o (IF htlc_data.safety_deposit > 0
        THEN <<Xfer(ContractAddress, htlc_data.sender,
                    htlc_data.safety_deposit)>>
        ELSE <<>>)

\* A refund that returns the amount and keeps the safety deposit.
refund_transfers_amount_only(htlc_data, total_refund) ==
    <<Xfer(ContractAddress, htlc_data.sender, htlc_data.amount)>>

\* A refund that pays the receiver.
refund_transfers_to_receiver(htlc_data, total_refund) ==
    <<Xfer(ContractAddress, htlc_data.receiver, total_refund)>>

\* refund's transfer out of custody, lib.rs 272-281.
refund_transfers(htlc_data, total_refund) ==
    <<Xfer(ContractAddress, htlc_data.sender, total_refund)>>

\* A final write that sets the status and leaves the lock as it is.
finalize_keeps_lock(htlc_data, status) ==
    [htlc_data EXCEPT !.status = status]

\* A final write that sets the status and clears the amount.
finalize_clears_amount(htlc_data, status) ==
    [htlc_data EXCEPT !.status = status, !.locked = FALSE, !.amount = 0]

\* The final write of withdraw (224-229) and of refund (283-288).
finalize(htlc_data, status) ==
    [htlc_data EXCEPT !.status = status, !.locked = FALSE]

\* A handler that goes on to the transfer without persisting the lock.
set_lock_skip(htlc_data) == htlc_data

\* The reentrancy lock persisted before the transfers, lib.rs 201-205 and
\* 266-270.
set_lock(htlc_data) == [htlc_data EXCEPT !.locked = TRUE]

\* A transfer failure that is returned to the caller, so that the writes made
\* so far are committed.
transfer_failed_keeps_writes(entry, current, msg) == PanicAt(current, msg)

\* A failure inside client.transfer (213, 217-221, 277-281) aborts the
\* invocation: the host discards every write made since its entry.
transfer_failed(entry, current, msg) == PanicAt(entry, msg)

\* How the token contract behaves during the transfers of one invocation:
\* it moves the balances, it turns the transfer number `at` down, or during
\* the transfer number `at` it calls withdraw or refund of this contract
\* again on the same id and either catches a failure of that call or lets it
\* abort the whole invocation.
Honest == [kind |-> "honest"]

Refuse(at) == [kind |-> "refuse", at |-> at]

Reenter(at, op, auths, preimage, caught) ==
    [kind |-> "reenter", at |-> at, op |-> op, auths |-> auths,
     preimage |-> preimage, caught |-> caught]

TransferRun(ok, ledger, result, inner) ==
    [ok |-> ok, ledger |-> ledger, result |-> result, inner |-> inner]

\* The transfers as the native token makes them.
native_transfers(mid, xfers) ==
    LET t == token_transfers(mid.balance, xfers) IN
    TransferRun(t.ok, [mid EXCEPT !.balance = t.balance],
                IF t.ok THEN OK ELSE ErrTransferFailed, "none")

Begun(result, locked_data, mid, xfers) ==
    [result |-> result, locked_data |-> locked_data, mid |-> mid,
     xfers |-> xfers]

Refused(ledger, msg) == Begun(msg, <<>>, ledger, <<>>)

\* A withdraw that looks at the deadline before it looks at the status.
withdraw_begin_deadline_first(ledger, auths, contract_id, preimage) ==
    LET got == get_htlc_data(ledger.storage, contract_id) IN
    IF ~got.found THEN Refused(ledger, ErrNotFound)
    ELSE LET htlc_data == got.data IN
    IF htlc_data.locked THEN Refused(ledger, ErrReentrancy)
    ELSE IF ~require_auth(auths, htlc_data.receiver)
         THEN Refused(ledger, ErrUnauthorized)
    ELSE IF withdraw_timelock_expired(timestamp, htlc_data.timelock)
         THEN Refused(ledger, ErrTimelockExpired)
    ELSE IF status_check(htlc_data.status) # OK
         THEN Refused(ledger, status_check(htlc_data.status))
    ELSE IF preimage_invalid(preimage, htlc_data.hashlock)
         THEN Refused(ledger, ErrInvalidPreimage)
    ELSE LET locked_data == set_lock(htlc_data) IN
         Begun(OK, locked_data,
               [ledger EXCEPT !.storage =
                   storage_set(ledger.storage, contract_id, locked_data)],
               withdraw_transfers(locked_data))

\* withdraw up to its transfers, lib.rs 170-211: the checks, then the lock
\* written to storage.
withdraw_begin(ledger, auths, contract_id, preimage) ==
    LET got == get_htlc_data(ledger.storage, contract_id) IN
    IF ~got.found THEN Refused(ledger, ErrNotFound)
    ELSE LET htlc_data == got.data IN
    IF htlc_data.locked THEN Refused(ledger, ErrReentrancy)
    ELSE IF ~require_auth(auths, htlc_data.receiver)
         THEN Refused(ledger, ErrUnauthorized)
    ELSE IF status_check(htlc_data.status) # OK
         THEN Refused(ledger, status_check(htlc_data.status))
    ELSE IF withdraw_timelock_expired(timestamp, htlc_data.timelock)
         THEN Refused(ledger, ErrTimelockExpired)
    ELSE IF preimage_invalid(preimage, htlc_data.hashlock)
         THEN Refused(ledger, ErrInvalidPreimage)
    ELSE LET locked_data == set_lock(htlc_data) IN
         Begun(OK, locked_data,
               [ledger EXCEPT !.storage =
                   storage_set(ledger.storage, contract_id, locked_data)],
               withdraw_transfers(locked_data))

\* withdraw after its transfers, lib.rs 213-238: `t` is how they went.
withdraw_end(ledger, b, t, contract_id, preimage) ==
    IF ~t.ok
    THEN [transfer_failed(ledger, t.ledger, t.result)
              EXCEPT !.inner = t.inner]
    ELSE [Outcome(OK,
                  storage_set(t.ledger.storage, contract_id,
                              finalize(b.locked_data, "Withdrawn")),
                  t.ledger.balance,
                  Append(t.ledger.events,
                         withdraw_event(contract_id, preimage)),
                  b.xfers)
              EXCEPT !.inner = t.inner]

\* refund up to its transfer, lib.rs 243-275.
refund_begin(ledger, auths, contract_id, overflow_checks) ==
    LET got == get_htlc_data(ledger.storage, contract_id) IN
    IF ~got.found THEN Refused(ledger, ErrNotFound)
    ELSE LET htlc_data == got.data IN
    IF htlc_data.locked THEN Refused(ledger, ErrReentrancy)
    ELSE IF ~require_auth(auths, htlc_data.sender)
         THEN Refused(ledger, ErrUnauthorized)
    ELSE IF status_check(htlc_data.status) # OK
         THEN Refused(ledger, status_check(htlc_data.status))
    ELSE IF refund_timelock_not_expired(timestamp, htlc_data.timelock)
         THEN Refused(ledger, ErrTimelockNotExpired)
    ELSE LET locked_data == set_lock(htlc_data)
             sum == add_i128(locked_data.amount, locked_data.safety_deposit,
                             overflow_checks)
         IN
    IF sum.trap THEN Refused(ledger, ErrOverflow)
    ELSE Begun(OK, locked_data,
               [ledger EXCEPT !.storage =
                   storage_set(ledger.storage, contract_id, locked_data)],
               refund_transfers(locked_data, sum.value))

\* refund after its transfer, lib.rs 277-294.
refund_end(ledger, b, t, contract_id) ==
    IF ~t.ok
    THEN [transfer_failed(ledger, t.ledger, t.result)
              EXCEPT !.inner = t.inner]
    ELSE [Outcome(OK,
                  storage_set(t.ledger.storage, contract_id,
                              finalize(b.locked_data, "Refunded")),
                  t.ledger.balance,
                  Append(t.ledger.events, refund_event(contract_id)),
                  b.xfers)
              EXCEPT !.inner = t.inner]

\* withdraw and refund over the native token, which never calls back.
withdraw_native(ledger, auths, contract_id, preimage) ==
    LET b == withdraw_begin(ledger, auths, contract_id, preimage) IN
    IF b.result # OK THEN PanicAt(ledger, b.result)
    ELSE withdraw_end(ledger, b, native_transfers(b.mid, b.xfers),
                      contract_id, preimage)

refund_native(ledger, auths, contract_id, overflow_checks) ==
    LET b == refund_begin(ledger, auths, contract_id, overflow_checks) IN
    IF b.result # OK THEN PanicAt(ledger, b.result)
    ELSE refund_end(ledger, b, native_transfers(b.mid, b.xfers), contract_id)

\* The call the token makes back into the contract.  A stored record's
\* amount + safety_deposit fits i128, so the build does not matter to it.
reenter(ledger, token, contract_id) ==
    IF token.op = "withdraw"
    THEN withdraw_native(ledger, token.auths, contract_id, token.preimage)
    ELSE refund_native(ledger, token.auths, contract_id, TRUE)

\* The transfers of withdraw or refund over a token that behaves as `token`
\* says, made on the ledger `mid` in which the lock is already written.
run_transfers(mid, xfers, token, contract_id) ==
    IF token.kind = "honest" \/ token.at > Len(xfers)
    THEN native_transfers(mid, xfers)
    ELSE IF token.kind = "refuse"
    THEN LET t == token_transfers(mid.balance,
                                  SubSeq(xfers, 1, token.at - 1)) IN
         TransferRun(FALSE, [mid EXCEPT !.balance = t.balance],
                     ErrTransferFailed, "refused")
    ELSE LET t1 == token_transfers(mid.balance, SubSeq(xfers, 1, token.at))
             l1 == [mid EXCEPT !.balance = t1.balance]
         IN
         IF ~t1.ok THEN TransferRun(FALSE, l1, ErrTransferFailed, "none")
         ELSE LET r == reenter(l1, token, contract_id) IN
         IF r.result # OK /\ ~token.caught
         THEN TransferRun(FALSE, l1, r.result, r.result)
         ELSE LET t2 == token_transfers(r.balance,
                            SubSeq(xfers, token.at + 1, Len(xfers)))
              IN TransferRun(t2.ok,
                             Ledger(r.storage, t2.balance, r.events),
                             IF t2.ok THEN OK ELSE ErrTransferFailed,
                             r.result)

\* withdraw and refund over a token that behaves as `token` says.
withdraw_at(ledger, auths, contract_id, preimage, token) ==
    LET b == withdraw_begin(ledger, auths, contract_id, preimage) IN
    IF b.result # OK THEN PanicAt(ledger, b.result)
    ELSE withdraw_end(ledger, b,
                      run_transfers(b.mid, b.xfers, token, contract_id),
                      contract_id, preimage)

refund_at(ledger, auths, contract_id, overflow_checks, token) ==
    LET b == refund_begin(ledger, auths, contract_id, overflow_checks) IN
    IF b.result # OK THEN PanicAt(ledger, b.result)
    ELSE refund_end(ledger, b,
                    run_transfers(b.mid, b.xfers, token, contract_id),
                    contract_id)

\* The entry points as the host invokes them on the current ledger.
withdraw_run(auths, contract_id, preimage) ==
    withdraw_native(Ledger(storage, balance, events), auths, contract_id,
                    preimage)

refund_run(auths, contract_id, overflow_checks) ==
    refund_native(Ledger(storage, balance, events), auths, contract_id,
                  overflow_checks)

(***************************************************************************)
(* Read-only entry points, lib.rs 297-313.                                 *)
(***************************************************************************)
get_htlc_run(contract_id) ==
    LET got == get_htlc_data(storage, contract_id) IN
    IF ~got.found THEN [result |-> ErrNotFound, value |-> <<>>]
    ELSE [result |-> OK, value |-> got.data]

contract_exists_run(contract_id) ==
    [result |-> OK, value |-> storage_has(storage, contract_id)]

\* A status query that answers with the status a record was created with.
get_status_run_initial(contract_id) ==
    LET got == get_htlc_data(storage, contract_id) IN
    IF ~got.found THEN [result |-> ErrNotFound, value |-> <<>>]
    ELSE [result |-> OK, value |-> "Active"]

get_status_run(contract_id) ==
    LET got == get_htlc_data(storage, contract_id) IN
    IF ~got.found THEN [result |-> ErrNotFound, value |-> <<>>]
    ELSE [result |-> OK, value |-> got.data.status]

(***************************************************************************)
(* The state machine.                                                      *)
(***************************************************************************)
\* The record of a call: which entry point ran and how it ended, with the
\* id it acted on when it succeeded.
Call(op, contract_id, result) ==
    [op |-> op,
     contract_id |-> IF result = OK THEN contract_id ELSE UnknownId,
     result |-> result, inner |-> "none"]

\* Value that left the engine's custody between two balance maps.
CustodyOut(bal, bal2) == bal[ContractAddress] - bal2[ContractAddress]

\* The builds that differ on a + b: with and without overflow checks when
\* the sum leaves i128, one representative otherwise.
OverflowBuilds(a, b) == IF InI128(a + b) THEN {TRUE} ELSE BOOLEAN

Init ==
    /\ storage = <<>>
    /\ balance = [a \in Account |->
                     IF a = ContractAddress THEN 0 ELSE InitBalance]
    /\ timestamp = 0
    /\ events = <<>>
    /\ last = Call("init", UnknownId, OK)
    /\ movedIn = <<>>
    /\ movedOut = <<>>
    /\ resolved = <<>>

\* The host commits the outcome of an invocation.
Commit(o) ==
    /\ storage' = o.storage
    /\ balance' = o.balance
    /\ events' = o.events

create_htlc ==
    \E auths \in AuthInput, sender \in SenderInput, receiver \in Address,
       amount \in AmountInput, hashlock \in HashlockInput,
       timelock \in TimelockInput, safety_deposit \in DepositInput :
      \E overflow_checks \in OverflowBuilds(amount, safety_deposit) :
        LET o == create_htlc_run(auths, sender, receiver, amount, hashlock,
                                 timelock, safety_deposit, overflow_checks)
            contract_id == generate_contract_id(sender, receiver, amount,
                               hashlock, timelock, timestamp)
        IN /\ o.result = OK => Cardinality(DOMAIN storage) < MaxEscrows
           /\ Commit(o)
           /\ timestamp' = timestamp
           /\ last' = Call("create_htlc", contract_id, o.result)
           /\ IF o.result = OK
              THEN /\ movedIn' = storage_set(movedIn, contract_id,
                                     CustodyOut(o.balance, balance))
                   /\ movedOut' = storage_set(movedOut, contract_id, 0)
                   /\ resolved' = storage_set(resolved, contract_id, 0)
              ELSE UNCHANGED <<movedIn, movedOut, resolved>>

\* The authorizations under which `address` has signed the invocation.
AuthOf(address) == {auths \in AuthInput : address \in auths}

\* The ids a caller may pass: every stored id and one that is not stored.
IdInput == DOMAIN storage \cup {UnknownId}

Resolve(op, contract_id, o) ==
    /\ Commit(o)
    /\ timestamp' = timestamp
    /\ last' = [Call(op, contract_id, o.result) EXCEPT !.inner = o.inner]
    /\ movedIn' = movedIn
    /\ IF o.result = OK
       THEN /\ movedOut' = [movedOut EXCEPT ![contract_id] =
                               @ + CustodyOut(balance, o.balance)]
            /\ resolved' = [resolved EXCEPT ![contract_id] =
                               @ + 1 + (IF o.inner = OK THEN 1 ELSE 0)]
       ELSE UNCHANGED <<movedOut, resolved>>

withdraw ==
    \E auths \in AuthInput, contract_id \in IdInput, preimage \in Preimage :
        Resolve("withdraw", contract_id,
                withdraw_run(auths, contract_id, preimage))

refund ==
    \E auths \in AuthInput, contract_id \in IdInput :
      \E overflow_checks \in
             IF storage_has(storage, contract_id)
             THEN OverflowBuilds(storage[contract_id].amount,
                                 storage[contract_id].safety_deposit)
             ELSE {TRUE} :
        Resolve("refund", contract_id,
                refund_run(auths, contract_id, overflow_checks))

ReadOnly(op, contract_id, r) ==
    /\ last' = Call(op, UnknownId, r.result)
    /\ UNCHANGED <<storage, balance, timestamp, events, movedIn, movedOut,
                   resolved>>

get_htlc ==
    \E contract_id \in IdInput :
        ReadOnly("get_htlc", contract_id, get_htlc_run(contract_id))

contract_exists ==
    \E contract_id \in IdInput :
        ReadOnly("contract_exists", contract_id,
                 contract_exists_run(contract_id))

get_status ==
    \E contract_id \in IdInput :
        ReadOnly("get_status", contract_id, get_status_run(contract_id))

\* The ledger closes and time moves on.
Tick ==
    /\ timestamp < MaxTime
    /\ timestamp' = timestamp + 1
    /\ last' = Call("tick", UnknownId, OK)
    /\ UNCHANGED <<storage, balance, events, movedIn, movedOut, resolved>>

Next ==
    \/ create_htlc
    \/ withdraw
    \/ refund
    \/ get_htlc
    \/ contract_exists
    \/ get_status
    \/ Tick

Spec == Init /\ [][Next]_vars

\* The sender of the escrow at contract_id calls refund and it succeeds.
refund_by_sender(contract_id) ==
    /\ contract_id \in DOMAIN storage
    /\ \E auths \in AuthOf(storage[contract_id].sender) :
          LET o == refund_run(auths, contract_id, TRUE) IN
          /\ o.result = OK
          /\ Resolve("refund", contract_id, o)

\* The ids under which a create can succeed.
LiveIds ==
    {generate_contract_id(sender, receiver, amount, hashlock, timelock, ts) :
        sender \in SenderInput, receiver \in Address,
        amount \in {a \in AmountInput : 0 < a /\ a <= InitBalance},
        hashlock \in HashlockInput, timelock \in TimelockInput,
        ts \in {t \in Time : t < Deadline}}

\* refund_by_sender(contract_id) is enabled: the refund of the escrow's
\* sender would succeed in this state.
RefundPermitted(contract_id) ==
    /\ contract_id \in DOMAIN storage
    /\ \E auths \in AuthOf(storage[contract_id].sender) :
          refund_run(auths, contract_id, TRUE).result = OK

\* The contract with a ledger clock that keeps advancing and senders who
\* call refund on their escrows once it is permitted: weak fairness of Tick
\* and of every refund_by_sender(contract_id), the latter written out with
\* its enabling condition as the state predicate RefundPermitted.
SpecLive ==
    /\ Init
    /\ [][Next]_vars
    /\ WF_vars(Tick)
    /\ \A contract_id \in LiveIds :
          \/ []<>(~RefundPermitted(contract_id))
          \/ []<><<refund_by_sender(contract_id)>>_vars

\* The same contract over a token that may turn a transfer down or call
\* back into the contract during a transfer.
TransferLegs == {1, 2}

TokenInput(auths, preimage) ==
    {Refuse(at) : at \in TransferLegs}
    \cup {Reenter(at, op, auths, preimage, caught) :
             at \in TransferLegs, op \in {"withdraw", "refund"},
             caught \in BOOLEAN}

withdraw_token ==
    \E auths \in AuthInput, contract_id \in DOMAIN storage,
       preimage \in Preimage :
      \E token \in TokenInput(auths, preimage) :
        Resolve("withdraw", contract_id,
                withdraw_at(Ledger(storage, balance, events), auths,
                            contract_id, preimage, token))

refund_token ==
    \E auths \in AuthInput, contract_id \in DOMAIN storage,
       preimage \in Preimage :
      \E token \in TokenInput(auths, preimage) :
        Resolve("refund", contract_id,
                refund_at(Ledger(storage, balance, events), auths,
                          contract_id, TRUE, token))

NextToken ==
    \/ Next
    \/ withdraw_token
    \/ refund_token

SpecToken == Init /\ [][NextToken]_vars

TypeOK ==
    /\ timestamp \in Time
    /\ \A a \in Account : balance[a] \in 0..I128Max
    /\ \A id \in DOMAIN storage :
          /\ storage[id].contract_id = id
          /\ storage[id].status \in HTLCStatus
    /\ DOMAIN movedIn = DOMAIN storage
    /\ DOMAIN movedOut = DOMAIN storage
    /\ DOMAIN resolved = DOMAIN storage

(***************************************************************************)
(* Properties.                                                             *)
(***************************************************************************)
\* The invocation left the ledger exactly as it found it.
NoEffect(o) ==
    /\ o.storage = storage
    /\ o.balance = balance
    /\ o.events = events
    /\ o.xfers = <<>>

Terminal(status) == status \in {"Withdrawn", "Refunded"}

ActiveIds == {id \in DOMAIN storage :
                 storage[id].status = "Active" /\ ~storage[id].locked}

\* The preimages of a hashlock among the secrets the callers know.
Secrets(hashlock) == {p \in Preimage : sha256(p) = hashlock}

\* C1: for every escrow id at most one withdraw or refund ever succeeds;
\* once a record is Withdrawn or Refunded, no step changes it again.
C1_AtMostOneResolution ==
    /\ [](\A id \in DOMAIN storage :
             /\ resolved[id] <= 1
             /\ storage[id].status = "Active" => resolved[id] = 0)
    /\ [][\A id \in DOMAIN storage :
             Terminal(storage[id].status) =>
                 /\ id \in DOMAIN storage'
                 /\ storage'[id] = storage[id]
                 /\ resolved'[id] = resolved[id]]_vars

\* A withdraw or refund was attempted on an escrow that was already resolved
\* once, and was turned down.
C1_Witness ==
    /\ last.op \in {"withdraw", "refund"}
    /\ last.result \in {ErrAlreadyWithdrawn, ErrAlreadyRefunded}
    /\ \E id \in DOMAIN storage :
          Terminal(storage[id].status) /\ resolved[id] = 1

\* C2: on an Active, unlocked escrow a withdraw by the receiver with the
\* correct secret succeeds iff timestamp < timelock, and a refund by the
\* sender succeeds iff timestamp >= timelock: at every clock value exactly
\* one of the two is permitted.
C2_TemporalBoundary ==
    \A id \in ActiveIds :
        LET d == storage[id] IN
        /\ \A auths \in AuthOf(d.receiver), p \in Secrets(d.hashlock) :
              (withdraw_run(auths, id, p).result = OK)
                  <=> (timestamp < d.timelock)
        /\ \A auths \in AuthOf(d.sender), oc \in BOOLEAN :
              (refund_run(auths, id, oc).result = OK)
                  <=> (timestamp >= d.timelock)
        /\ \A aw \in AuthOf(d.receiver), p \in Secrets(d.hashlock),
              ar \in AuthOf(d.sender), oc \in BOOLEAN :
              (withdraw_run(aw, id, p).result = OK)
                  # (refund_run(ar, id, oc).result = OK)

\* A refund went through at the very instant of the deadline.
C2_Witness ==
    /\ last.op = "refund"
    /\ last.result = OK
    /\ timestamp = storage[last.contract_id].timelock

\* C3: on an Active, unlocked escrow, before the deadline and authorized by
\* the receiver, withdraw fails with "Invalid preimage" and changes nothing
\* for every secret whose hash differs from the hashlock, and succeeds for
\* the secret whose hash equals it.
C3_PreimageSoundness ==
    \A id \in ActiveIds :
        LET d == storage[id] IN
        timestamp < d.timelock =>
            \A auths \in AuthOf(d.receiver), p \in Preimage :
                LET o == withdraw_run(auths, id, p) IN
                IF sha256(p) = d.hashlock
                THEN o.result = OK
                ELSE o.result = ErrInvalidPreimage /\ NoEffect(o)

\* A withdraw with a wrong secret was turned down while the escrow was still
\* open for withdrawal.
C3_Witness ==
    /\ last.op = "withdraw"
    /\ last.result = ErrInvalidPreimage
    /\ \E id \in ActiveIds : timestamp < storage[id].timelock

\* C4: the value moved out of custody for an escrow is 0 while it is Active
\* and exactly amount + safety_deposit once it is Withdrawn or Refunded, and
\* never more than what create moved in for it.
C4_Conservation ==
    \A id \in DOMAIN storage :
        LET d == storage[id] IN
        /\ d.status = "Active" => movedOut[id] = 0
        /\ Terminal(d.status) => movedOut[id] = d.amount + d.safety_deposit
        /\ movedOut[id] <= movedIn[id]

\* One escrow with a safety deposit was withdrawn and another was refunded.
C4_Witness ==
    \E a, b \in DOMAIN storage :
        /\ storage[a].status = "Withdrawn"
        /\ storage[b].status = "Refunded"
        /\ storage[a].safety_deposit > 0
        /\ storage[b].safety_deposit > 0

\* C5: once an escrow is Withdrawn, every withdraw by the receiver and every
\* refund by the sender fails with "Already withdrawn"; once it is Refunded
\* they fail with "Already refunded"; at any clock value, with any secret,
\* and without any effect.
C5_AlreadyResolved ==
    \A id \in DOMAIN storage :
        LET d == storage[id]
            err == IF d.status = "Withdrawn" THEN ErrAlreadyWithdrawn
                   ELSE ErrAlreadyRefunded
        IN Terminal(d.status) =>
            /\ \A auths \in AuthOf(d.receiver), p \in Preimage :
                  LET o == withdraw_run(auths, id, p) IN
                  o.result = err /\ NoEffect(o)
            /\ \A auths \in AuthOf(d.sender), oc \in BOOLEAN :
                  LET o == refund_run(auths, id, oc) IN
                  o.result = err /\ NoEffect(o)

\* A withdraw on a refunded escrow was turned down.
C5_Witness ==
    /\ last.op = "withdraw"
    /\ last.result = ErrAlreadyRefunded
    /\ \E id \in DOMAIN storage : storage[id].status = "Refunded"

\* C6: a successful withdraw moves exactly amount from custody to the
\* receiver and exactly safety_deposit from custody to the sender, with no
\* sender leg at all when safety_deposit is 0, and sets the status to
\* Withdrawn.
C6_WithdrawEffect ==
    \A id \in DOMAIN storage, auths \in AuthInput, p \in Preimage :
        LET d == storage[id]
            o == withdraw_run(auths, id, p)
        IN o.result = OK =>
            /\ o.balance[ContractAddress] =
                   balance[ContractAddress] - d.amount - d.safety_deposit
            /\ \A a \in Address :
                  o.balance[a] = balance[a]
                      + (IF a = d.receiver THEN d.amount ELSE 0)
                      + (IF a = d.sender THEN d.safety_deposit ELSE 0)
            /\ Len(o.xfers) = IF d.safety_deposit = 0 THEN 1 ELSE 2
            /\ \A i \in DOMAIN o.xfers :
                  o.xfers[i].from = ContractAddress /\ o.xfers[i].amount > 0
            /\ o.storage[id].status = "Withdrawn"

\* A withdraw of an escrow with a safety deposit, between two different
\* parties, went through.
C6_Witness ==
    /\ last.op = "withdraw"
    /\ last.result = OK
    /\ storage[last.contract_id].status = "Withdrawn"
    /\ storage[last.contract_id].safety_deposit > 0
    /\ storage[last.contract_id].sender # storage[last.contract_id].receiver

\* C7: a successful refund moves exactly amount + safety_deposit from
\* custody to the sender in one transfer, moves nothing to anybody else, and
\* sets the status to Refunded.
C7_RefundEffect ==
    \A id \in DOMAIN storage, auths \in AuthInput, oc \in BOOLEAN :
        LET d == storage[id]
            o == refund_run(auths, id, oc)
            total == d.amount + d.safety_deposit
        IN o.result = OK =>
            /\ Len(o.xfers) = 1
            /\ o.xfers[1] = Xfer(ContractAddress, d.sender, total)
            /\ o.balance[ContractAddress] = balance[ContractAddress] - total
            /\ o.balance[d.sender] = balance[d.sender] + total
            /\ \A a \in Address \ {d.sender} : o.balance[a] = balance[a]
            /\ o.storage[id].status = "Refunded"

\* A refund of an escrow with a safety deposit, between two different
\* parties, went through.
C7_Witness ==
    /\ last.op = "refund"
    /\ last.result = OK
    /\ storage[last.contract_id].status = "Refunded"
    /\ storage[last.contract_id].safety_deposit > 0
    /\ storage[last.contract_id].sender # storage[last.contract_id].receiver

\* C8: a successful create moves exactly amount + safety_deposit from the
\* sender into custody and persists, at the id it returns, a record that
\* carries the arguments, the current time as timestamp, the status Active
\* and locked = false; the id exists afterwards.
C8_CreateEffect ==
    \A auths \in AuthInput, sender \in Address, receiver \in Address,
       amount \in AmountInput, hashlock \in Hashlock,
       timelock \in TimelockInput, safety_deposit \in DepositInput,
       oc \in BOOLEAN :
        LET o == create_htlc_run(auths, sender, receiver, amount, hashlock,
                                 timelock, safety_deposit, oc)
            id == generate_contract_id(sender, receiver, amount, hashlock,
                                       timelock, timestamp)
            total == amount + safety_deposit
        IN o.result = OK =>
            /\ o.balance[sender] = balance[sender] - total
            /\ o.balance[ContractAddress] = balance[ContractAddress] + total
            /\ \A a \in Address \ {sender} : o.balance[a] = balance[a]
            /\ storage_has(o.storage, id)
            /\ o.storage[id].contract_id = id
            /\ o.storage[id].sender = sender
            /\ o.storage[id].receiver = receiver
            /\ o.storage[id].amount = amount
            /\ o.storage[id].hashlock = hashlock
            /\ o.storage[id].timelock = timelock
            /\ o.storage[id].safety_deposit = safety_deposit
            /\ o.storage[id].timestamp = timestamp
            /\ o.storage[id].status = "Active"
            /\ o.storage[id].locked = FALSE

\* A create with a safety deposit, between two different parties, went
\* through and its record is in storage.
C8_Witness ==
    /\ last.op = "create_htlc"
    /\ last.result = OK
    /\ storage_has(storage, last.contract_id)
    /\ storage[last.contract_id].status = "Active"
    /\ storage[last.contract_id].safety_deposit > 0
    /\ storage[last.contract_id].sender # storage[last.contract_id].receiver

\* C9: a create authorized by the sender fails with "Invalid amount" when
\* amount <= 0, with "Invalid safety deposit" when safety_deposit < 0 (the
\* amount being valid) and with "Invalid timelock" when timelock <= the
\* current time (amount and deposit being valid); each time no record is
\* written, no transfer is attempted and no event is published.
C9_CreateValidation ==
    \A auths \in AuthInput, sender \in Address, receiver \in Address,
       amount \in AmountInput, hashlock \in Hashlock,
       timelock \in TimelockInput, safety_deposit \in DepositInput,
       oc \in BOOLEAN :
        LET o == create_htlc_run(auths, sender, receiver, amount, hashlock,
                                 timelock, safety_deposit, oc)
        IN sender \in auths =>
            /\ amount <= 0 => o.result = ErrInvalidAmount /\ NoEffect(o)
            /\ (amount > 0 /\ safety_deposit < 0) =>
                  o.result = ErrInvalidSafetyDeposit /\ NoEffect(o)
            /\ (amount > 0 /\ safety_deposit >= 0 /\ timelock <= timestamp) =>
                  o.result = ErrInvalidTimelock /\ NoEffect(o)

\* A create whose deadline equals the current time was turned down.
C9_Witness ==
    /\ last.op = "create_htlc"
    /\ last.result = ErrInvalidTimelock
    /\ timestamp = Deadline

\* C10: a create whose derived id already has a record fails with "Contract
\* already exists" and changes nothing; a record is Active for the first
\* time, or again, only by a create that found no record at its id, and
\* create leaves every existing record as it is.
C10_NoOverwrite ==
    /\ [](\A auths \in AuthInput, sender \in Address, receiver \in Address,
             amount \in AmountInput, hashlock \in Hashlock,
             timelock \in TimelockInput, safety_deposit \in DepositInput,
             oc \in BOOLEAN :
             LET o == create_htlc_run(auths, sender, receiver, amount,
                          hashlock, timelock, safety_deposit, oc)
                 id == generate_contract_id(sender, receiver, amount,
                                            hashlock, timelock, timestamp)
             IN (sender \in auths /\ safety_deposit >= 0
                   /\ storage_has(storage, id)) =>
                    o.result = ErrAlreadyExists /\ NoEffect(o))
    /\ [][/\ \A id \in DOMAIN storage' :
                (/\ storage'[id].status = "Active"
                 /\ (id \notin DOMAIN storage \/ storage[id] # storage'[id]))
                => /\ id \notin DOMAIN storage
                   /\ last' = Call("create_htlc", id, OK)
          /\ last'.op = "create_htlc" =>
                \A id \in DOMAIN storage :
                    id \in DOMAIN storage' /\ storage'[id] = storage[id]]_vars

\* A second create with the parameters and the clock value of an existing
\* record was turned down.
C10_Witness ==
    /\ last.op = "create_htlc"
    /\ last.result = ErrAlreadyExists
    /\ \E id \in DOMAIN storage : storage[id].timestamp = timestamp

\* C11: the id is a function of (sender, receiver, amount, hashlock,
\* timelock, timestamp) that tells any two such tuples apart: arguments
\* derive the id of a stored record only if all six equal the record's.  So a
\* create that repeats a record's parameters at another clock value, and is
\* otherwise valid, succeeds under a new id and both records exist afterwards.
C11_IdDistinct ==
    \A id \in DOMAIN storage :
        LET d == storage[id] IN
        /\ \A sender \in Address, receiver \in Address,
              amount \in AmountInput, hashlock \in Hashlock,
              timelock \in Time, ts \in Time :
              (generate_contract_id(sender, receiver, amount, hashlock,
                                    timelock, ts) = id)
              <=> /\ sender = d.sender
                  /\ receiver = d.receiver
                  /\ amount = d.amount
                  /\ hashlock = d.hashlock
                  /\ timelock = d.timelock
                  /\ ts = d.timestamp
        /\ \A auths \in AuthOf(d.sender), safety_deposit \in DepositInput,
              oc \in BOOLEAN :
              LET o == create_htlc_run(auths, d.sender, d.receiver, d.amount,
                           d.hashlock, d.timelock, safety_deposit, oc)
                  id2 == generate_contract_id(d.sender, d.receiver, d.amount,
                             d.hashlock, d.timelock, timestamp)
              IN (/\ d.timestamp # timestamp
                  /\ d.timelock > timestamp
                  /\ safety_deposit >= 0
                  /\ balance[d.sender] >= d.amount + safety_deposit
                  /\ ~\E e \in DOMAIN storage :
                        /\ storage[e].sender = d.sender
                        /\ storage[e].receiver = d.receiver
                        /\ storage[e].amount = d.amount
                        /\ storage[e].hashlock = d.hashlock
                        /\ storage[e].timelock = d.timelock
                        /\ storage[e].timestamp = timestamp)
                 => /\ o.result = OK
                    /\ id2 # id
                    /\ storage_has(o.storage, id)
                    /\ storage_has(o.storage, id2)
                    /\ o.storage[id] = d
                    /\ o.storage[id2].timestamp = timestamp

\* Two records that differ in nothing but their creation time are stored,
\* the second by the last call.
C11_Witness ==
    /\ last.op = "create_htlc"
    /\ last.result = OK
    /\ \E a, b \in DOMAIN storage :
          /\ a # b
          /\ b = last.contract_id
          /\ storage[a].sender = storage[b].sender
          /\ storage[a].receiver = storage[b].receiver
          /\ storage[a].amount = storage[b].amount
          /\ storage[a].hashlock = storage[b].hashlock
          /\ storage[a].timelock = storage[b].timelock
          /\ storage[a].safety_deposit = storage[b].safety_deposit
          /\ storage[a].timestamp # storage[b].timestamp

\* C12: create takes effect only under the authorization of its sender
\* argument, withdraw only under that of the record's receiver, refund only
\* under that of the record's sender; without it the call fails with
\* "Unauthorized" and changes nothing, whatever the secret, the status of the
\* record and the clock.
C12_Authorization ==
    /\ \A auths \in AuthInput, sender \in Address, receiver \in Address,
          amount \in AmountInput, hashlock \in Hashlock,
          timelock \in TimelockInput, safety_deposit \in DepositInput,
          oc \in BOOLEAN :
          LET o == create_htlc_run(auths, sender, receiver, amount, hashlock,
                                   timelock, safety_deposit, oc)
          IN IF sender \in auths
             THEN o.result # ErrUnauthorized
             ELSE o.result = ErrUnauthorized /\ NoEffect(o)
    /\ \A id \in DOMAIN storage, auths \in AuthInput :
          /\ \A p \in Preimage :
                LET o == withdraw_run(auths, id, p) IN
                IF storage[id].receiver \in auths
                THEN o.result # ErrUnauthorized
                ELSE o.result = ErrUnauthorized /\ NoEffect(o)
          /\ \A oc \in BOOLEAN :
                LET o == refund_run(auths, id, oc) IN
                IF storage[id].sender \in auths
                THEN o.result # ErrUnauthorized
                ELSE o.result = ErrUnauthorized /\ NoEffect(o)

\* A withdraw without the receiver's authorization was turned down while
\* the escrow was open for withdrawal.
C12_Witness ==
    /\ last.op = "withdraw"
    /\ last.result = ErrUnauthorized
    /\ \E id \in ActiveIds :
          /\ timestamp < storage[id].timelock
          /\ storage[id].sender # storage[id].receiver

\* C13: withdraw and refund persist locked = TRUE before their first
\* outgoing transfer and write the terminal status with locked = FALSE only
\* after their last one, so a withdraw or refund that re-enters on the same
\* id from inside any of the transfers fails with "Reentrancy detected";
\* the escrow is paid out at most once and never more than it took in, and
\* when the outer call has ended the lock is released.
C13_ReentrancyGuard ==
    /\ last.inner \in {"none", "refused", ErrReentrancy}
    /\ \A id \in DOMAIN storage :
          /\ resolved[id] <= 1
          /\ movedOut[id] <= movedIn[id]
          /\ ~storage[id].locked
    /\ \A id \in ActiveIds, auths \in AuthInput, p \in Preimage :
        \A token \in TokenInput(auths, p) :
          token.kind = "reenter" =>
              /\ withdraw_at(Ledger(storage, balance, events), auths, id, p,
                             token).inner \in {"none", ErrReentrancy}
              /\ refund_at(Ledger(storage, balance, events), auths, id, TRUE,
                           token).inner \in {"none", ErrReentrancy}

\* A withdraw completed although the token called withdraw or refund again
\* during one of its transfers: the inner call was turned down by the lock
\* and the escrow was paid out once.
C13_Witness ==
    /\ last.op = "withdraw"
    /\ last.result = OK
    /\ last.inner = ErrReentrancy
    /\ storage[last.contract_id].status = "Withdrawn"
    /\ resolved[last.contract_id] = 1
    /\ movedOut[last.contract_id] = movedIn[last.contract_id]

\* C14: when the token turns down a transfer of withdraw or refund, after
\* the lock was written and whichever transfer it is, the call fails and
\* nothing it did is kept: the record is still Active and unlocked, no
\* balance has moved, no event was published, and the same call over a
\* token that transfers succeeds.  No failing call changes the ledger.
C14_AllOrNothing ==
    /\ [](\A id \in ActiveIds :
             LET d == storage[id]
                 ledger == Ledger(storage, balance, events)
             IN
             /\ \A auths \in AuthOf(d.receiver), p \in Secrets(d.hashlock),
                   at \in TransferLegs :
                   LET o == withdraw_at(ledger, auths, id, p, Refuse(at)) IN
                   (timestamp < d.timelock
                        /\ at <= Len(withdraw_transfers(d))) =>
                       /\ o.result = ErrTransferFailed
                       /\ NoEffect(o)
                       /\ withdraw_run(auths, id, p).result = OK
             /\ \A auths \in AuthOf(d.sender), at \in TransferLegs :
                   LET o == refund_at(ledger, auths, id, TRUE, Refuse(at)) IN
                   (timestamp >= d.timelock
                        /\ at <= Len(refund_transfers(d, 0))) =>
                       /\ o.result = ErrTransferFailed
                       /\ NoEffect(o)
                       /\ refund_run(auths, id, TRUE).result = OK)
    /\ [][last'.result # OK =>
             UNCHANGED <<storage, balance, events, movedIn, movedOut,
                         resolved>>]_vars

\* The token turned down a transfer of a withdraw, and the escrow is still
\* Active, unlocked, fully funded and open for withdrawal.
C14_Witness ==
    /\ last.op = "withdraw"
    /\ last.result = ErrTransferFailed
    /\ last.inner = "refused"
    /\ \E id \in ActiveIds :
          /\ timestamp < storage[id].timelock
          /\ resolved[id] = 0
          /\ movedOut[id] = 0
    /\ balance[ContractAddress] > 0

\* The ids a caller can derive from parameters of its choice.
DerivableIds ==
    {generate_contract_id(sender, receiver, amount, hashlock, timelock, ts) :
        sender \in Address, receiver \in Address, amount \in {0, 1},
        hashlock \in Hashlock, timelock \in TimelockInput, ts \in Time}

\* C15: on an id under which no record is stored, withdraw, refund,
\* get_htlc and get_status fail with "Contract not found" whatever the
\* secret, the caller and the clock, and change nothing; contract_exists
\* answers false.
C15_UnknownId ==
    \A id \in (DerivableIds \cup {UnknownId}) \ DOMAIN storage :
        /\ \A auths \in AuthInput, p \in Preimage :
              LET o == withdraw_run(auths, id, p) IN
              o.result = ErrNotFound /\ NoEffect(o)
        /\ \A auths \in AuthInput, oc \in BOOLEAN :
              LET o == refund_run(auths, id, oc) IN
              o.result = ErrNotFound /\ NoEffect(o)
        /\ get_htlc_run(id).result = ErrNotFound
        /\ get_status_run(id).result = ErrNotFound
        /\ contract_exists_run(id) = [result |-> OK, value |-> FALSE]

\* A withdraw on an id that is not stored was turned down after the deadline
\* of a stored escrow had passed, while other ids were stored.
C15_Witness ==
    /\ last.op = "withdraw"
    /\ last.result = ErrNotFound
    /\ DOMAIN storage # {}
    /\ \E id \in DOMAIN storage : timestamp >= storage[id].timelock

\* A create call that passes every check made before the balance check:
\* authorized by the sender, valid parameters, no record under its id.
CreateAdmissible(auths, sender, amount, safety_deposit, timelock, contract_id) ==
    /\ sender \in auths
    /\ create_validate(amount, safety_deposit, timelock, timestamp) = OK
    /\ ~storage_has(storage, contract_id)

\* C16 as stated: an otherwise admissible create fails with "Insufficient
\* balance", without effect, whenever the sender's balance is less than
\* amount + safetyDeposit.
C16_AsStated ==
    \A auths \in AuthInput, sender \in Address, receiver \in Address,
       amount \in AmountInput, hashlock \in Hashlock,
       timelock \in TimelockInput, safety_deposit \in DepositInput,
       oc \in BOOLEAN :
       LET o == create_htlc_run(auths, sender, receiver, amount, hashlock,
                                timelock, safety_deposit, oc)
           id == generate_contract_id(sender, receiver, amount, hashlock,
                                      timelock, timestamp)
       IN (/\ CreateAdmissible(auths, sender, amount, safety_deposit,
                               timelock, id)
           /\ balance[sender] < amount + safety_deposit) =>
              o.result = ErrInsufficientBalance /\ NoEffect(o)

\* C16: an otherwise admissible create whose amount + safetyDeposit fits
\* i128 fails with "Insufficient balance", without effect, when the sender's
\* balance is less than that sum, and succeeds when the balance covers it;
\* when the sum does not fit i128 the create fails without effect, though
\* not with "Insufficient balance".
C16_InsufficientBalance ==
    \A auths \in AuthInput, sender \in Address, receiver \in Address,
       amount \in AmountInput, hashlock \in Hashlock,
       timelock \in TimelockInput, safety_deposit \in DepositInput,
       oc \in BOOLEAN :
       LET o == create_htlc_run(auths, sender, receiver, amount, hashlock,
                                timelock, safety_deposit, oc)
           id == generate_contract_id(sender, receiver, amount, hashlock,
                                      timelock, timestamp)
       IN CreateAdmissible(auths, sender, amount, safety_deposit,
                           timelock, id) =>
             IF ~InI128(amount + safety_deposit)
             THEN o.result \in {ErrOverflow, ErrTransferFailed} /\ NoEffect(o)
             ELSE IF balance[sender] < amount + safety_deposit
             THEN o.result = ErrInsufficientBalance /\ NoEffect(o)
             ELSE o.result = OK

\* A create was turned down for insufficient balance although the sender
\* still holds funds, because earlier escrows took part of them.
C16_Witness ==
    /\ last.op = "create_htlc"
    /\ last.result = ErrInsufficientBalance
    /\ DOMAIN storage # {}
    /\ \E a \in SenderInput : 0 < balance[a] /\ balance[a] < InitBalance

\* The events published so far under the topic `topic` for `contract_id`.
EventsOf(topic, contract_id) ==
    {i \in DOMAIN events :
        events[i].topic = topic /\ events[i].contract_id = contract_id}

\* The invocation published exactly one event, of the given topic and
\* keyed by the given id, after everything published before.
EmitsOne(o, topic, contract_id) ==
    /\ Len(o.events) = Len(events) + 1
    /\ SubSeq(o.events, 1, Len(events)) = events
    /\ o.events[Len(o.events)].topic = topic
    /\ o.events[Len(o.events)].contract_id = contract_id

\* C17: a successful create, withdraw or refund publishes exactly one
\* event, HTLCNew, HTLCWithdraw or HTLCRefund, keyed by the escrow's id; a
\* failing call publishes none; and whenever an event is in the log the
\* state it reports is the persisted one: every record has one HTLCNew
\* event, a Withdrawn record one HTLCWithdraw event, a Refunded record one
\* HTLCRefund event, and there are no other events.
C17_Events ==
    /\ \A auths \in AuthInput, sender \in Address, receiver \in Address,
          amount \in AmountInput, hashlock \in Hashlock,
          timelock \in TimelockInput, safety_deposit \in DepositInput,
          oc \in BOOLEAN :
          LET o == create_htlc_run(auths, sender, receiver, amount, hashlock,
                                   timelock, safety_deposit, oc)
              id == generate_contract_id(sender, receiver, amount, hashlock,
                                         timelock, timestamp)
          IN IF o.result = OK
             THEN EmitsOne(o, "HTLCNew", id) /\ storage_has(o.storage, id)
             ELSE o.events = events
    /\ \A id \in IdInput, auths \in AuthInput :
          /\ \A p \in Preimage :
                LET o == withdraw_run(auths, id, p) IN
                IF o.result = OK
                THEN /\ EmitsOne(o, "HTLCWithdraw", id)
                     /\ o.storage[id].status = "Withdrawn"
                     /\ ~o.storage[id].locked
                ELSE o.events = events
          /\ \A oc \in BOOLEAN :
                LET o == refund_run(auths, id, oc) IN
                IF o.result = OK
                THEN /\ EmitsOne(o, "HTLCRefund", id)
                     /\ o.storage[id].status = "Refunded"
                     /\ ~o.storage[id].locked
                ELSE o.events = events
    /\ \A i \in DOMAIN events :
          /\ events[i].topic \in {"HTLCNew", "HTLCWithdraw", "HTLCRefund"}
          /\ events[i].contract_id \in DOMAIN storage
    /\ \A id \in DOMAIN storage :
          /\ Cardinality(EventsOf("HTLCNew", id)) = 1
          /\ Cardinality(EventsOf("HTLCWithdraw", id))
                = (IF storage[id].status = "Withdrawn" THEN 1 ELSE 0)
          /\ Cardinality(EventsOf("HTLCRefund", id))
                = (IF storage[id].status = "Refunded" THEN 1 ELSE 0)

\* A refund has just succeeded and its HTLCRefund event is the last of the
\* log, after the HTLCNew event of the same id.
C17_Witness ==
    /\ last.op = "refund"
    /\ last.result = OK
    /\ Len(events) >= 2
    /\ events[Len(events)].topic = "HTLCRefund"
    /\ events[Len(events)].contract_id = last.contract_id
    /\ EventsOf("HTLCNew", last.contract_id) # {}

\* C18: a record is Withdrawn iff an HTLCWithdraw event was published for
\* its id, and the secret that event carries hashes to the record's
\* hashlock; a refund event carries the id and no secret, and a failing
\* withdraw publishes nothing.
C18_SecretRevelation ==
    /\ \A id \in DOMAIN storage :
          (storage[id].status = "Withdrawn")
              <=> (EventsOf("HTLCWithdraw", id) # {})
    /\ \A i \in DOMAIN events :
          /\ events[i].topic = "HTLCWithdraw" =>
                /\ events[i].contract_id \in DOMAIN storage
                /\ Len(events[i].data) = 1
                /\ sha256(events[i].data[1])
                      = storage[events[i].contract_id].hashlock
          /\ events[i].topic = "HTLCRefund" =>
                events[i].data = <<events[i].contract_id>>
    /\ \A id \in IdInput, auths \in AuthInput, p \in Preimage :
          LET o == withdraw_run(auths, id, p) IN
          o.result # OK => o.events = events

\* A withdraw has just succeeded and the secret in its event opens the
\* hashlock of the record, while a wrong secret exists that does not.
C18_Witness ==
    /\ last.op = "withdraw"
    /\ last.result = OK
    /\ events[Len(events)].topic = "HTLCWithdraw"
    /\ events[Len(events)].data[1]
          \in Secrets(storage[last.contract_id].hashlock)
    /\ Secrets(storage[last.contract_id].hashlock) # Preimage

\* What the creation event of a record carries, the id from its topics and
\* then its data.
CarriedFields(e) == <<e.contract_id>> \o e.data

\* C19 as stated: the creation event carries id, sender, receiver, amount,
\* asset, hashlock, deadline, createdAt and safetyDeposit of the persisted
\* record.
C19_AsStated ==
    \A i \in DOMAIN events :
        events[i].topic = "HTLCNew" =>
            LET d == storage[events[i].contract_id] IN
            /\ Len(CarriedFields(events[i])) = 9
            /\ CarriedFields(events[i])
                  = <<d.contract_id, d.sender, d.receiver, d.amount,
                      d.token_address, d.hashlock, d.timelock, d.timestamp,
                      d.safety_deposit>>

\* C19: the creation event carries id, sender, receiver, amount, asset,
\* hashlock, deadline and safetyDeposit of the persisted record, and not its
\* createdAt; the id is re-derived from the carried fields together with
\* the creation time, and two events may differ in their id alone.
C19_CreationEvent ==
    \A i \in DOMAIN events :
        events[i].topic = "HTLCNew" =>
            LET e == events[i]
                d == storage[e.contract_id]
            IN
            /\ CarriedFields(e)
                  = <<d.contract_id, d.sender, d.receiver, d.amount,
                      d.token_address, d.hashlock, d.timelock,
                      d.safety_deposit>>
            /\ generate_contract_id(e.data[1], e.data[2], e.data[3],
                                    e.data[5], e.data[6], d.timestamp)
                  = e.contract_id
            /\ \A ts \in Time \ {d.timestamp} :
                  generate_contract_id(e.data[1], e.data[2], e.data[3],
                                       e.data[5], e.data[6], ts)
                      # e.contract_id

\* Two creation events are in the log that carry the same data and belong
\* to records created at different times.
C19_Witness ==
    \E i, j \in DOMAIN events :
        /\ i < j
        /\ events[i].topic = "HTLCNew"
        /\ events[j].topic = "HTLCNew"
        /\ events[i].data = events[j].data
        /\ storage[events[i].contract_id].timestamp
              # storage[events[j].contract_id].timestamp

\* C20: contract_exists, get_htlc and get_status change no record, balance
\* or event; on a stored id get_htlc returns exactly the persisted record
\* and get_status exactly its persisted status, and contract_exists tells
\* whether the id is stored.
C20_ReadOnly ==
    /\ [](\A id \in IdInput :
             /\ contract_exists_run(id).result = OK
             /\ contract_exists_run(id).value <=> (id \in DOMAIN storage)
             /\ id \in DOMAIN storage =>
                   /\ get_htlc_run(id) = [result |-> OK, value |-> storage[id]]
                   /\ get_status_run(id)
                         = [result |-> OK, value |-> storage[id].status])
    /\ [][last'.op \in {"contract_exists", "get_htlc", "get_status"} =>
             UNCHANGED <<storage, balance, events, timestamp, movedIn,
                         movedOut, resolved>>]_vars

\* A read-only query was answered while a resolved escrow and an Active one
\* were stored.
C20_Witness ==
    /\ last.op \in {"get_htlc", "get_status"}
    /\ last.result = OK
    /\ \E id \in DOMAIN storage : Terminal(storage[id].status)
    /\ ActiveIds # {}

\* C21: between top-level calls every persisted record has locked = FALSE,
\* whether the calls before succeeded, failed before the lock was written,
\* or failed after it; locked = TRUE is in storage only during the
\* transfers of a withdraw or refund, after its lock write and before its
\* final write.
C21_LockAtRest ==
    /\ \A id \in DOMAIN storage : ~storage[id].locked
    /\ \A id \in DOMAIN storage, auths \in AuthInput, p \in Preimage :
          LET ledger == Ledger(storage, balance, events)
              bw == withdraw_begin(ledger, auths, id, p)
              br == refund_begin(ledger, auths, id, TRUE)
          IN
          /\ bw.result = OK => bw.mid.storage[id].locked
          /\ bw.result # OK => bw.mid = ledger
          /\ br.result = OK => br.mid.storage[id].locked
          /\ br.result # OK => br.mid = ledger
          /\ \A token \in TokenInput(auths, p) \cup {Honest} :
                LET ow == withdraw_at(ledger, auths, id, p, token)
                    or == refund_at(ledger, auths, id, TRUE, token)
                IN /\ \A k \in DOMAIN ow.storage : ~ow.storage[k].locked
                   /\ \A k \in DOMAIN or.storage : ~or.storage[k].locked

\* A refund failed inside its transfer, after its lock write, and the escrow
\* it was called on is Active and unlocked past its deadline.
C21_Witness ==
    /\ last.op = "refund"
    /\ last.result = ErrTransferFailed
    /\ last.inner = "refused"
    /\ \E id \in DOMAIN storage :
          /\ storage[id].status = "Active"
          /\ ~storage[id].locked
          /\ timestamp >= storage[id].timelock

\* C22: every persisted record has amount > 0, safety_deposit >= 0 and
\* timelock > timestamp (its creation time), in every reachable state.
C22_RecordInvariant ==
    \A id \in DOMAIN storage :
        /\ storage[id].amount > 0
        /\ storage[id].safety_deposit >= 0
        /\ storage[id].timelock > storage[id].timestamp

\* A record with no safety deposit, created one tick before its deadline, is
\* stored while the clock has passed that deadline.
C22_Witness ==
    \E id \in DOMAIN storage :
        /\ storage[id].safety_deposit = 0
        /\ storage[id].timelock = storage[id].timestamp + 1
        /\ timestamp > storage[id].timelock

\* The fields of a record that are fixed at creation.
Immutable(d) ==
    <<d.contract_id, d.sender, d.receiver, d.amount, d.token_address,
      d.hashlock, d.timelock, d.timestamp, d.safety_deposit>>

\* C23: a record is never deleted and its id, sender, receiver, amount,
\* asset, hashlock, deadline, createdAt and safetyDeposit never change; a
\* record changes only by a successful withdraw or refund on its own id, in
\* its status and locked fields; create adds one record and leaves the
\* others as they are.
C23_Frame ==
    [][/\ \A id \in DOMAIN storage :
             /\ id \in DOMAIN storage'
             /\ Immutable(storage'[id]) = Immutable(storage[id])
             /\ storage'[id] # storage[id] =>
                   /\ last'.op \in {"withdraw", "refund"}
                   /\ last'.result = OK
                   /\ last'.contract_id = id
       /\ DOMAIN storage' # DOMAIN storage =>
             /\ last'.op = "create_htlc"
             /\ last'.result = OK
             /\ DOMAIN storage' = DOMAIN storage \cup {last'.contract_id}
             /\ last'.contract_id \notin DOMAIN storage]_vars

\* A withdraw has resolved one escrow while another one is stored, still
\* Active, with everything it holds in custody.
C23_Witness ==
    /\ last.op = "withdraw"
    /\ last.result = OK
    /\ \E id \in ActiveIds :
          /\ id # last.contract_id
          /\ balance[ContractAddress]
                = storage[id].amount + storage[id].safety_deposit

\* The error of the first check that fails in a list of <<fails, error>>
\* pairs, OK when none fails.
FirstFailing(checks) ==
    LET failing == {i \in DOMAIN checks : checks[i][1]} IN
    IF failing = {} THEN OK
    ELSE checks[CHOOSE i \in failing : \A j \in failing : i <= j][2]

\* The current ledger, with the record at contract_id as a call entering
\* from inside a transfer finds it when `locked` is TRUE.
LedgerSeen(contract_id, locked) ==
    Ledger(IF locked /\ contract_id \in DOMAIN storage
           THEN [storage EXCEPT ![contract_id].locked = TRUE]
           ELSE storage,
           balance, events)

\* C24: withdraw reports the first failing check in the order not found,
\* reentrancy, unauthorized, already withdrawn / already refunded, timelock
\* expired, invalid preimage, and refund in the order not found,
\* reentrancy, unauthorized, already withdrawn / already refunded, timelock
\* not expired; a call that fails none of them succeeds.
C24_ErrorPrecedence ==
    \A id \in IdInput, auths \in AuthInput, locked \in BOOLEAN :
        LET ledger == LedgerSeen(id, locked) IN
        IF id \notin DOMAIN storage
        THEN /\ \A p \in Preimage :
                   withdraw_native(ledger, auths, id, p).result = ErrNotFound
             /\ refund_native(ledger, auths, id, TRUE).result = ErrNotFound
        ELSE LET d == ledger.storage[id] IN
             /\ \A p \in Preimage :
                   withdraw_native(ledger, auths, id, p).result
                     = FirstFailing(<<
                          <<d.locked, ErrReentrancy>>,
                          <<d.receiver \notin auths, ErrUnauthorized>>,
                          <<d.status = "Withdrawn", ErrAlreadyWithdrawn>>,
                          <<d.status = "Refunded", ErrAlreadyRefunded>>,
                          <<timestamp >= d.timelock, ErrTimelockExpired>>,
                          <<sha256(p) # d.hashlock, ErrInvalidPreimage>> >>)
             /\ refund_native(ledger, auths, id, TRUE).result
                  = FirstFailing(<<
                       <<d.locked, ErrReentrancy>>,
                       <<d.sender \notin auths, ErrUnauthorized>>,
                       <<d.status = "Withdrawn", ErrAlreadyWithdrawn>>,
                       <<d.status = "Refunded", ErrAlreadyRefunded>>,
                       <<timestamp < d.timelock, ErrTimelockNotExpired>> >>)

\* A withdraw was turned down as already refunded while every stored escrow
\* is Refunded and past its deadline.
C24_Witness ==
    /\ last.op = "withdraw"
    /\ last.result = ErrAlreadyRefunded
    /\ DOMAIN storage # {}
    /\ \A id \in DOMAIN storage :
          /\ storage[id].status = "Refunded"
          /\ timestamp >= storage[id].timelock

RECURSIVE TotalHeld(_)
\* The sum of amount + safety_deposit over the records with the given ids.
TotalHeld(ids) ==
    IF ids = {} THEN 0
    ELSE LET id == CHOOSE i \in ids : TRUE IN
         storage[id].amount + storage[id].safety_deposit
             + TotalHeld(ids \ {id})

\* C26: value enters and leaves custody through create, withdraw and
\* refund only, and between calls the custody balance equals the sum of
\* amount + safety_deposit over the Active records: every Active escrow
\* can be paid out in full and nothing stays in custody for a resolved one.
C26_CustodySolvency ==
    /\ balance[ContractAddress] = TotalHeld(ActiveIds)
    /\ \A id \in DOMAIN storage :
          IF storage[id].status = "Active"
          THEN /\ movedIn[id] - movedOut[id]
                     = storage[id].amount + storage[id].safety_deposit
               /\ balance[ContractAddress]
                     >= storage[id].amount + storage[id].safety_deposit
          ELSE movedIn[id] - movedOut[id] = 0

\* One escrow with a safety deposit has been withdrawn and another one is
\* Active: custody holds what the Active one took in and nothing else.
C26_Witness ==
    /\ \E id \in DOMAIN storage :
          /\ storage[id].status = "Withdrawn"
          /\ storage[id].safety_deposit > 0
    /\ \E id \in ActiveIds :
          /\ storage[id].safety_deposit > 0
          /\ balance[ContractAddress]
                = storage[id].amount + storage[id].safety_deposit

\* C27: the id does not depend on safety_deposit (and create takes no
\* asset): creates that differ in safety_deposit alone derive the same id,
\* so at the clock value at which a record was created a create with its
\* sender, receiver, amount, hashlock and timelock and another
\* safety_deposit fails with "Contract already exists" and leaves the
\* record, its safety_deposit included, as it is.
C27_IdBlindSpot ==
    /\ \A auths \in AuthInput, sender \in Address, receiver \in Address,
          amount \in AmountInput, hashlock \in Hashlock,
          timelock \in TimelockInput, d1 \in DepositInput,
          d2 \in DepositInput :
          LET o1 == create_htlc_run(auths, sender, receiver, amount,
                                    hashlock, timelock, d1, TRUE)
              o2 == create_htlc_run(auths, sender, receiver, amount,
                                    hashlock, timelock, d2, TRUE)
          IN (o1.result = OK /\ o2.result = OK) =>
                 DOMAIN o1.storage = DOMAIN o2.storage
    /\ \A id \in DOMAIN storage :
          LET d == storage[id] IN
          d.timestamp = timestamp =>
              \A auths \in AuthOf(d.sender), deposit \in DepositInput,
                 oc \in BOOLEAN :
                 LET o == create_htlc_run(auths, d.sender, d.receiver,
                                          d.amount, d.hashlock, d.timelock,
                                          deposit, oc)
                 IN (deposit >= 0 /\ deposit # d.safety_deposit) =>
                        /\ o.result = ErrAlreadyExists
                        /\ NoEffect(o)
                        /\ o.storage[id].safety_deposit = d.safety_deposit

\* A create was turned down as already existing at the clock value at which
\* the only stored record, one with a safety deposit, was created.
C27_Witness ==
    /\ last.op = "create_htlc"
    /\ last.result = ErrAlreadyExists
    /\ Cardinality(DOMAIN storage) = 1
    /\ \A id \in DOMAIN storage :
          /\ storage[id].timestamp = timestamp
          /\ storage[id].safety_deposit = 1
          /\ balance[ContractAddress] = storage[id].amount + 1

\* C28: a create whose amount + safety_deposit leaves the i128 range, in a
\* build with or without overflow checks, persists nothing and moves
\* nothing; a create that succeeds moves exactly amount + safety_deposit
\* from the sender into custody; and the total a refund pays is that same
\* sum, which it computes without overflow.
C28_NoWrapAround ==
    /\ \A auths \in AuthInput, sender \in Address, receiver \in Address,
          amount \in AmountInput, hashlock \in Hashlock,
          timelock \in TimelockInput, safety_deposit \in DepositInput,
          oc \in BOOLEAN :
          LET o == create_htlc_run(auths, sender, receiver, amount, hashlock,
                                   timelock, safety_deposit, oc)
          IN /\ ~InI128(amount + safety_deposit) =>
                   o.result # OK /\ NoEffect(o)
             /\ o.result = OK =>
                   /\ o.balance[ContractAddress] - balance[ContractAddress]
                         = amount + safety_deposit
                   /\ balance[sender] - o.balance[sender]
                         = amount + safety_deposit
    /\ \A id \in ActiveIds :
          LET d == storage[id] IN
          /\ InI128(d.amount + d.safety_deposit)
          /\ movedIn[id] = d.amount + d.safety_deposit
          /\ \A auths \in AuthOf(d.sender), oc \in BOOLEAN :
                LET o == refund_run(auths, id, oc) IN
                /\ o.result # ErrOverflow
                /\ o.result = OK =>
                      /\ o.xfers = <<Xfer(ContractAddress, d.sender,
                                          d.amount + d.safety_deposit)>>
                      /\ balance[ContractAddress] - o.balance[ContractAddress]
                            = movedIn[id]

\* A create whose total wrapped around was turned down by the token, while
\* an escrow created before holds exactly its amount + safety_deposit.
C28_Witness ==
    /\ last.op = "create_htlc"
    /\ last.result = ErrTransferFailed
    /\ \E id \in ActiveIds :
          /\ movedIn[id] = storage[id].amount + storage[id].safety_deposit
          /\ balance[ContractAddress] = movedIn[id]

====
